---------------------------- MODULE Spec2Model ----------------------------
(***************************************************************************)
(* Model of the FastAPI backend in src/backend/main.py: the item store     *)
(* accessed through one psycopg2 connection per operation, the probes,     *)
(* the Prometheus middleware, the route normalisation and the environment  *)
(* dump.                                                                   *)
(*                                                                         *)
(* Handlers are "async def" bodies without any await, so each handler is   *)
(* one atomic step of the event loop; the middleware awaits call_next and  *)
(* is therefore split in the steps before and after the await.             *)
(***************************************************************************)
EXTENDS Integers, Sequences, FiniteSets, TLC

VARIABLES
    (* the store and the handlers (Spec) *)
    appState,     \* "starting" before the lifespan hook ran, then "serving"
    tableExists,  \* the table items exists in the database
    items,        \* the rows of table items: id -> [title, created_at]
    seq,          \* last value drawn from the SERIAL sequence of items.id
    clock,        \* the store's NOW() at the latest INSERT
    openConns,    \* connections opened and not closed
    nOps,         \* operations run so far (the lifespan hook is the first)
    last,         \* the last operation: its inputs and its outcome
    createdIds,   \* history: ids returned by a create answered 201
    deletedIds,   \* history: ids whose delete was answered 204
    fresh,        \* history: id -> its create (title sent, body returned), until updated/deleted
    (* the middleware (SpecMW) *)
    reqs,         \* request slot -> the request being served, its position
    inflight,     \* http_inflight_requests: route -> value
    total,        \* http_requests_total: <<method, route, status>> -> value
    durations,    \* http_request_duration_seconds: <<method, route>> -> count
    nStarted,     \* requests that entered the middleware
    nCompleted,   \* requests whose dispatch completed (returned or raised)
    nRaised,      \* requests whose exception left the middleware
    log,          \* history: the completed requests, in order of completion
    (* route normalisation alone (SpecRoute) *)
    rPath,        \* request.url.path
    rRoute,       \* the route label computed for it
    (* the environment dump (SpecEnv) *)
    environ,      \* os.environ
    envOut,       \* the mapping GET /api/env returned
    phase         \* "input" before the function under study ran, then "output"

storeVars == <<appState, tableExists, items, seq, clock, openConns,
               nOps, last, createdIds, deletedIds, fresh>>
mwVars    == <<reqs, inflight, total, durations, nStarted, nCompleted, nRaised, log>>
routeVars == <<rPath, rRoute>>
envVars   == <<environ, envOut>>
vars      == <<storeVars, mwVars, routeVars, envVars, phase>>

-----------------------------------------------------------------------------
(* Bounds *)
MaxOps   == 4      \* operations per behaviour
MaxPath  == 8      \* tokens ("/" or a word) of a request path
MaxReqs  == 3      \* requests per behaviour of the middleware
MaxEnv   == 2      \* variables in the process environment

-----------------------------------------------------------------------------
(* Values *)
None     == 0                       \* no connection / no row
Titles   == {"", "a"}
Bodies   == [hasTitle : {TRUE}, title : Titles] \cup {[hasTitle |-> FALSE, title |-> ""]}
Ids      == 1..(seq + 1)             \* the ids handed out so far, and one never handed out
EmptyStr == << >>
NoItem   == [id |-> 0, title |-> "", created_at |-> EmptyStr]

(* datetime.isoformat(): a non-empty text that orders as the timestamp does *)
isoformat(ts) == <<"T", ts>>

(* Item(id=row[0], title=row[1], created_at=row[2].isoformat() if row[2] else "") *)
Item(id, row) ==
    [id |-> id, title |-> row.title,
     created_at |-> IF row.created_at # None THEN isoformat(row.created_at) ELSE EmptyStr]

-----------------------------------------------------------------------------
(* The persistence accessor and the handlers                                *)

(* Variant: a second psycopg2.connect after a refused one. *)
get_db_connection_retry(up) ==
    [conn |-> IF up THEN nOps + 1 ELSE None, attempts |-> IF up THEN 1 ELSE 2]

(* get_db_connection(): one psycopg2.connect; the connection, or None when  *)
(* the connection cannot be established.  A connection is a new object,     *)
(* identified here by the ordinal of the operation that opened it; up tells *)
(* whether the store accepts the connection at this moment.                 *)
get_db_connection(up) ==
    [conn |-> IF up THEN nOps + 1 ELSE None, attempts |-> 1]

(* What a handler did: the response, the store it leaves, the connection it *)
(* obtained, how many conn.close() it reached, and the step that raised.    *)
Out(status, item, list, newItems, newSeq, newTable, c, closes, failed) ==
    [status |-> status, item |-> item, list |-> list,
     items |-> newItems, seq |-> newSeq, table |-> newTable,
     conn |-> c.conn, attempts |-> c.attempts, closes |-> closes,
     failed |-> failed]

(* "if conn is None: raise HTTPException(status_code=503, ...)" *)
Unavailable(c) ==
    Out(503, NoItem, << >>, items, seq, tableExists, c, 0, "connect")

(* Variant: the except block raises without closing the connection. *)
StoreErrorNoClose(c, step, newSeq) ==
    [status |-> 500, item |-> NoItem, list |-> << >>, items |-> items,
     seq |-> newSeq, table |-> tableExists, conn |-> c.conn,
     attempts |-> c.attempts, closes |-> 0, failed |-> step]

(* "except Exception: if conn: conn.close(); raise HTTPException(500, ...)". *)
(* Closing the connection discards the uncommitted transaction; values      *)
(* drawn from the sequence are not given back.                              *)
StoreError(c, step, newSeq) ==
    Out(500, NoItem, << >>, items, newSeq, tableExists, c, 1, step)

(* "if row is None: raise HTTPException(status_code=404, ...)" after        *)
(* cur.close() and conn.close(); re-raised by "except HTTPException: raise" *)
NotFound(c) ==
    Out(404, NoItem, << >>, items, seq, tableExists, c, 1, "none")

(* A statement on table items raises when the table does not exist. *)
ExecuteFails(fail) == fail = "execute" \/ ~tableExists

(* Variant: ORDER BY created_at ASC. *)
SelectAllAscending ==
    {s \in [1..Cardinality(DOMAIN items) -> DOMAIN items] :
        /\ \A i, j \in 1..Len(s) : i # j => s[i] # s[j]
        /\ \A i, j \in 1..Len(s) : i < j => items[s[i]].created_at <= items[s[j]].created_at}

(* SELECT id, title, created_at FROM items ORDER BY created_at DESC: every  *)
(* order of the rows that is descending in created_at (ties in any order).  *)
Orderings(S) ==
    {s \in [1..Cardinality(S) -> S] : \A i, j \in 1..Cardinality(S) : i # j => s[i] # s[j]}
SelectAllOrdered ==
    {s \in Orderings(DOMAIN items) :
        \A i, j \in 1..Len(s) : i < j => items[s[i]].created_at >= items[s[j]].created_at}

(* GET /health *)
health ==
    Out(200, NoItem, << >>, items, seq, tableExists,
        [conn |-> None, attempts |-> 0], 0, "none")

(* GET /ready *)
ready(fail, up) ==
    LET c == get_db_connection(up) IN
    IF c.conn = None THEN Unavailable(c)
    ELSE IF fail \in {"cursor", "execute"}
         THEN Out(503, NoItem, << >>, items, seq, tableExists, c, 1, fail)
         ELSE Out(200, NoItem, << >>, items, seq, tableExists, c, 1, "none")

(* init_db(): CREATE TABLE IF NOT EXISTS items, closing in "finally" *)
init_db(fail, up) ==
    LET c == get_db_connection(up) IN
    IF c.conn = None
    THEN Out(0, NoItem, << >>, items, seq, tableExists, c, 0, "connect")
    ELSE IF fail \in {"cursor", "execute", "commit"}
         THEN Out(0, NoItem, << >>, items, seq, tableExists, c, 1, fail)
         ELSE Out(0, NoItem, << >>, items, seq, TRUE, c, 1, "none")

(* GET /api/items *)
get_items(fail, rows, up) ==
    LET c == get_db_connection(up) IN
    IF c.conn = None THEN Unavailable(c)
    ELSE IF fail = "cursor" THEN StoreError(c, "cursor", seq)
    ELSE IF ExecuteFails(fail) THEN StoreError(c, "execute", seq)
    ELSE IF fail = "fetch" THEN StoreError(c, "fetch", seq)
    ELSE Out(200, NoItem, [k \in 1..Len(rows) |-> Item(rows[k], items[rows[k]])],
             items, seq, tableExists, c, 1, "none")

(* Variant: the SELECT has no WHERE clause; fetchone() gives the first row. *)
get_item_first_row(item_id, fail, up) ==
    LET c == [conn |-> IF up THEN nOps + 1 ELSE None, attempts |-> 1] IN
    IF c.conn = None THEN Unavailable(c)
    ELSE IF fail \in {"cursor", "fetch"} THEN StoreError(c, fail, seq)
    ELSE IF ExecuteFails(fail) THEN StoreError(c, "execute", seq)
    ELSE IF DOMAIN items = {} THEN NotFound(c)
    ELSE LET first == CHOOSE k \in DOMAIN items : \A m \in DOMAIN items : k <= m
         IN  Out(200, Item(first, items[first]), << >>,
                 items, seq, tableExists, c, 1, "none")

(* GET /api/items/{item_id} *)
get_item(item_id, fail, up) ==
    LET c == get_db_connection(up) IN
    IF c.conn = None THEN Unavailable(c)
    ELSE IF fail = "cursor" THEN StoreError(c, "cursor", seq)
    ELSE IF ExecuteFails(fail) THEN StoreError(c, "execute", seq)
    ELSE IF fail = "fetch" THEN StoreError(c, "fetch", seq)
    ELSE IF item_id \notin DOMAIN items THEN NotFound(c)
    ELSE Out(200, Item(item_id, items[item_id]), << >>,
             items, seq, tableExists, c, 1, "none")

(* Variant: title: Optional[str] = "", a body without title is accepted. *)
ItemCreateAny(body) == TRUE

(* class ItemCreate / ItemUpdate (BaseModel): title: str, a required text *)
ItemCreate(body) == body.hasTitle
ItemUpdate(body) == body.hasTitle

(* the framework's answer to a body that fails validation; no handler runs *)
Unprocessable ==
    Out(422, NoItem, << >>, items, seq, tableExists,
        [conn |-> None, attempts |-> 0], 0, "none")

(* POST /api/items: INSERT INTO items (title) VALUES (%s) RETURNING ...     *)
(* id is drawn from the sequence, created_at defaults to NOW().             *)
create_item(item, fail, up, now) ==
    LET c == get_db_connection(up) IN
    IF c.conn = None THEN Unavailable(c)
    ELSE IF fail = "cursor" THEN StoreError(c, "cursor", seq)
    ELSE IF ExecuteFails(fail) THEN StoreError(c, "execute", seq)
    ELSE LET id  == seq + 1
             row == [title |-> item.title, created_at |-> now]
         IN  IF fail \in {"fetch", "commit"} THEN StoreError(c, fail, id)
             ELSE Out(201, Item(id, row), << >>,
                      [k \in DOMAIN items \cup {id} |-> IF k = id THEN row ELSE items[k]],
                      id, tableExists, c, 1, "none")

(* PUT /api/items/{item_id}: UPDATE items SET title = %s WHERE id = %s RETURNING ... *)
update_item(item_id, item, fail, up) ==
    LET c == get_db_connection(up) IN
    IF c.conn = None THEN Unavailable(c)
    ELSE IF fail = "cursor" THEN StoreError(c, "cursor", seq)
    ELSE IF ExecuteFails(fail) THEN StoreError(c, "execute", seq)
    ELSE IF fail \in {"fetch", "commit"} THEN StoreError(c, fail, seq)
    ELSE IF item_id \notin DOMAIN items THEN NotFound(c)
    ELSE LET row == [items[item_id] EXCEPT !.title = item.title]
         IN  Out(200, Item(item_id, row), << >>,
                 [items EXCEPT ![item_id] = row], seq, tableExists, c, 1, "none")

(* Variant: rowcount is not looked at; the answer is always 204. *)
delete_item_no_rowcount(item_id, fail, up) ==
    LET c == [conn |-> IF up THEN nOps + 1 ELSE None, attempts |-> 1] IN
    IF c.conn = None THEN Unavailable(c)
    ELSE IF fail \in {"cursor", "commit"} THEN StoreError(c, fail, seq)
    ELSE IF ExecuteFails(fail) THEN StoreError(c, "execute", seq)
    ELSE Out(204, NoItem, << >>,
             [k \in DOMAIN items \ {item_id} |-> items[k]],
             seq, tableExists, c, 1, "none")

(* DELETE /api/items/{item_id}: DELETE FROM items WHERE id = %s; rowcount *)
delete_item(item_id, fail, up) ==
    LET c == get_db_connection(up) IN
    IF c.conn = None THEN Unavailable(c)
    ELSE IF fail = "cursor" THEN StoreError(c, "cursor", seq)
    ELSE IF ExecuteFails(fail) THEN StoreError(c, "execute", seq)
    ELSE IF fail = "commit" THEN StoreError(c, "commit", seq)
    ELSE LET deleted == Cardinality({k \in DOMAIN items : k = item_id})
         IN  IF deleted = 0 THEN NotFound(c)
             ELSE Out(204, NoItem, << >>,
                      [k \in DOMAIN items \ {item_id} |-> items[k]],
                      seq, tableExists, c, 1, "none")

-----------------------------------------------------------------------------
(* Actions of the store specifications                                      *)

NoLast ==
    [op |-> "none", id |-> 0, hasTitle |-> FALSE, title |-> "", up |-> FALSE,
     table |-> FALSE, status |-> 0, item |-> NoItem, list |-> << >>,
     attempts |-> 0, conn |-> None, closes |-> 0, failed |-> "none",
     reused |-> FALSE, present |-> FALSE, changed |-> FALSE]

NoBody == [hasTitle |-> FALSE, title |-> ""]

(* The effect of one operation with outcome r on the state. *)
Effect(op, id, body, up, r) ==
    /\ items' = r.items
    /\ seq' = r.seq
    /\ tableExists' = r.table
    /\ openConns' = IF r.conn = None THEN openConns
                    ELSE IF r.closes = 0 THEN openConns \cup {r.conn}
                    ELSE openConns \ {r.conn}
    /\ nOps' = nOps + 1
    /\ last' = [op |-> op, id |-> id, hasTitle |-> body.hasTitle, title |-> body.title,
                up |-> up, table |-> tableExists, status |-> r.status,
                item |-> r.item, list |-> r.list, attempts |-> r.attempts,
                conn |-> r.conn, closes |-> r.closes, failed |-> r.failed,
                reused |-> (r.conn # None /\ r.conn <= nOps),
                present |-> (id \in DOMAIN items), changed |-> (r.items # items)]

(* the application serves once the lifespan hook has run (operation 1) *)
Serving == appState = "serving" /\ nOps <= MaxOps

(* The steps of the handlers that can raise, in the order they run. *)
ReadySteps  == {"cursor", "execute"}
ReadSteps   == {"cursor", "execute", "fetch"}
WriteSteps  == {"cursor", "execute", "fetch", "commit"}
DeleteSteps == {"cursor", "execute", "commit"}
InitSteps   == {"cursor", "execute", "commit"}
AllSteps    == {"cursor", "execute", "fetch", "commit"}

(* lifespan(): init_db() before the application serves *)
Lifespan(fails) ==
    /\ appState = "starting"
    /\ \E fail \in {"none"} \cup (fails \cap InitSteps) : \E up \in BOOLEAN :
          Effect("init_db", 0, NoBody, up, init_db(fail, up))
    /\ appState' = "serving"
    /\ UNCHANGED <<clock, createdIds, deletedIds, fresh>>

(* src/resources/init_db.py, run as its own process against a reachable store *)
InitDatabase ==
    /\ ~tableExists
    /\ tableExists' = TRUE
    /\ UNCHANGED <<appState, items, seq, clock, openConns, nOps,
                   last, createdIds, deletedIds, fresh>>

Health ==
    /\ Serving
    /\ \E up \in BOOLEAN : Effect("health", 0, NoBody, up, health)
    /\ UNCHANGED <<appState, clock, createdIds, deletedIds, fresh>>

Ready(fails) ==
    /\ Serving
    /\ \E fail \in {"none"} \cup (fails \cap ReadySteps) : \E up \in BOOLEAN :
          Effect("ready", 0, NoBody, up, ready(fail, up))
    /\ UNCHANGED <<appState, clock, createdIds, deletedIds, fresh>>

GetItems(fails) ==
    /\ Serving
    /\ \E fail \in {"none"} \cup (fails \cap ReadSteps) :
       \E rows \in SelectAllOrdered : \E up \in BOOLEAN :
          Effect("list", 0, NoBody, up, get_items(fail, rows, up))
    /\ UNCHANGED <<appState, clock, createdIds, deletedIds, fresh>>

GetItem(fails) ==
    /\ Serving
    /\ \E id \in Ids : \E fail \in {"none"} \cup (fails \cap ReadSteps) :
       \E up \in BOOLEAN :
          Effect("get", id, NoBody, up, get_item(id, fail, up))
    /\ UNCHANGED <<appState, clock, createdIds, deletedIds, fresh>>

(* NOW() of an INSERT is not before NOW() of the INSERTs committed earlier. *)
CreateItem(bodies, fails) ==
    /\ Serving
    /\ \E body \in bodies : \E fail \in {"none"} \cup (fails \cap WriteSteps) :
       \E up \in BOOLEAN : \E now \in {clock, clock + 1} :
          LET r == IF ItemCreate(body) THEN create_item(body, fail, up, now)
                   ELSE Unprocessable
          IN  /\ Effect("create", 0, body, up, r)
              /\ clock' = IF r.status = 201 THEN now ELSE clock
              /\ createdIds' = IF r.status = 201 THEN createdIds \cup {r.item.id} ELSE createdIds
              /\ fresh' = IF r.status = 201
                          THEN [k \in DOMAIN fresh \cup {r.item.id} |->
                                   IF k = r.item.id THEN [body |-> r.item, sent |-> body.title]
                                   ELSE fresh[k]]
                          ELSE fresh
    /\ UNCHANGED <<appState, deletedIds>>

UpdateItem(bodies, fails) ==
    /\ Serving
    /\ \E id \in Ids : \E body \in bodies :
       \E fail \in {"none"} \cup (fails \cap WriteSteps) : \E up \in BOOLEAN :
          LET r == IF ItemUpdate(body) THEN update_item(id, body, fail, up)
                   ELSE Unprocessable
          IN  /\ Effect("update", id, body, up, r)
              /\ fresh' = IF r.status = 200
                          THEN [k \in DOMAIN fresh \ {id} |-> fresh[k]] ELSE fresh
    /\ UNCHANGED <<appState, clock, createdIds, deletedIds>>

DeleteItem(fails) ==
    /\ Serving
    /\ \E id \in Ids : \E fail \in {"none"} \cup (fails \cap DeleteSteps) :
       \E up \in BOOLEAN :
          LET r == delete_item(id, fail, up)
          IN  /\ Effect("delete", id, NoBody, up, r)
              /\ deletedIds' = IF r.status = 204 THEN deletedIds \cup {id} ELSE deletedIds
              /\ fresh' = IF r.status = 204
                          THEN [k \in DOMAIN fresh \ {id} |-> fresh[k]] ELSE fresh
    /\ UNCHANGED <<appState, clock, createdIds>>

-----------------------------------------------------------------------------
(* Route normalisation.  A path is the sequence of its tokens, "/" or a     *)
(* word without "/"; adjacent words read as one longer word.                *)

Tokens     == {"/", "api", "items", "1", "2"}
ItemsSlash == <<"/", "api", "/", "items", "/">>               \* "/api/items/"
IdTemplate == <<"/", "api", "/", "items", "/", "{id}">>       \* "/api/items/{id}"

(* Python's "sub in text" *)
Contains(sub, text) ==
    \E off \in 0..(Len(text) - Len(sub)) :
        \A j \in 1..Len(sub) : text[off + j] = sub[j]

(* len(text.split("/")): one part more than there are "/" *)
SplitLen(text) == Cardinality({i \in 1..Len(text) : text[i] = "/"}) + 1

(* PrometheusMiddleware.dispatch, the route label of a request path *)
RouteTemplate(path) ==
    IF Contains(ItemsSlash, path) /\ SplitLen(path) = 4 THEN IdTemplate ELSE path

(* request paths start with "/" *)
Paths ==
    UNION {{p \in [1..n -> Tokens] : p[1] = "/"} : n \in 1..MaxPath}

RouteInit ==
    /\ rPath \in Paths
    /\ rRoute = << >>
    /\ phase = "input"

Normalize ==
    /\ phase = "input"
    /\ rRoute' = RouteTemplate(rPath)
    /\ phase' = "output"
    /\ UNCHANGED <<rPath, storeVars, mwVars, envVars>>

-----------------------------------------------------------------------------
(* The instrumentation middleware.  Every sample of a metric is created at  *)
(* 0 by labels() on first use; inc, dec and observe are atomic.             *)

Slots    == {1, 2}        \* requests in flight at once
Methods  == {"GET", "PUT"}
MWPaths  == {<<"/", "health">>, <<"/", "api", "/", "items">>,
             <<"/", "api", "/", "items", "/", "1">>,
             <<"/", "api", "/", "items", "/", "2">>}
Statuses == {200, 404}

Val(metric, labels)      == IF labels \in DOMAIN metric THEN metric[labels] ELSE 0
Add(metric, labels, d)   ==
    [l \in DOMAIN metric \cup {labels} |->
        IF l = labels THEN Val(metric, labels) + d ELSE metric[l]]

IdleReq == [pc |-> "idle", method |-> "", path |-> << >>, route |-> << >>,
            raised |-> FALSE, status |-> 0]

MWInit ==
    /\ reqs = [s \in Slots |-> IdleReq]
    /\ inflight = << >>
    /\ total = << >>
    /\ durations = << >>
    /\ nStarted = 0
    /\ nCompleted = 0
    /\ nRaised = 0
    /\ log = << >>

(* dispatch up to "await call_next(request)": the route label is computed   *)
(* and the in-flight gauge of the route incremented.                        *)
Enter(s) ==
    /\ reqs[s].pc = "idle"
    /\ nStarted < MaxReqs
    /\ \E method \in Methods : \E path \in MWPaths :
          LET route == RouteTemplate(path) IN
          /\ inflight' = Add(inflight, route, 1)
          /\ reqs' = [reqs EXCEPT ![s] = [pc |-> "awaiting", method |-> method,
                                          path |-> path, route |-> route,
                                          raised |-> FALSE, status |-> 0]]
    /\ nStarted' = nStarted + 1
    /\ UNCHANGED <<total, durations, nCompleted, nRaised, log>>

(* call_next: the application answers with a response, or raises *)
CallNextReturns(s) ==
    /\ reqs[s].pc = "awaiting"
    /\ \E status \in Statuses :
          reqs' = [reqs EXCEPT ![s].pc = "resumed", ![s].status = status]
    /\ UNCHANGED <<inflight, total, durations, nStarted, nCompleted, nRaised, log>>

CallNextRaises(s) ==
    /\ reqs[s].pc = "awaiting"
    /\ reqs' = [reqs EXCEPT ![s].pc = "resumed", ![s].raised = TRUE]
    /\ UNCHANGED <<inflight, total, durations, nStarted, nCompleted, nRaised, log>>

(* Variant: status_code starts at 0 and the except block does not set it. *)
StatusCodeOfResponse(req) == req.status

(* status_code as the "finally" block reads it: 500 from "except", else the *)
(* response's status.                                                       *)
StatusCode(req) == IF req.raised THEN 500 ELSE req.status

(* "raise" in the except block: the exception leaves dispatch *)
Reraised(req) == req.raised

(* Variant: the decrement sits in the try block, after call_next. *)
InflightAfterOnSuccess(req) ==
    IF req.raised THEN inflight ELSE Add(inflight, req.route, -1)

(* "http_inflight_requests.labels(route=route).dec()" in the finally block *)
InflightAfter(req) == Add(inflight, req.route, -1)

(* dispatch after the await: the finally block, then return or raise *)
Finally(s) ==
    /\ reqs[s].pc = "resumed"
    /\ LET req == reqs[s] IN
       /\ inflight' = InflightAfter(req)
       /\ total' = Add(total, <<req.method, req.route, StatusCode(req)>>, 1)
       /\ durations' = Add(durations, <<req.method, req.route>>, 1)
       /\ nRaised' = IF Reraised(req) THEN nRaised + 1 ELSE nRaised
       /\ log' = Append(log, [method |-> req.method, path |-> req.path,
                              raised |-> req.raised, status |-> req.status,
                              left |-> IF Reraised(req) THEN "exception" ELSE "response"])
    /\ nCompleted' = nCompleted + 1
    /\ reqs' = [reqs EXCEPT ![s] = IdleReq]
    /\ UNCHANGED nStarted

-----------------------------------------------------------------------------
(* GET /api/env.  A name is the sequence of its characters.                 *)

LowerCase == <<"a", "b", "c", "d", "e", "f", "g", "h", "i", "j", "k", "l", "m",
               "n", "o", "p", "q", "r", "s", "t", "u", "v", "w", "x", "y", "z">>
UpperCase == <<"A", "B", "C", "D", "E", "F", "G", "H", "I", "J", "K", "L", "M",
               "N", "O", "P", "Q", "R", "S", "T", "U", "V", "W", "X", "Y", "Z">>

(* str.upper(), character by character *)
upper(key) ==
    [i \in 1..Len(key) |->
        IF \E n \in 1..Len(LowerCase) : LowerCase[n] = key[i]
        THEN UpperCase[CHOOSE n \in 1..Len(LowerCase) : LowerCase[n] = key[i]]
        ELSE key[i]]

sensitive_keywords ==
    {<<"U", "S", "E", "R">>, <<"P", "A", "S", "S", "W", "O", "R", "D">>,
     <<"S", "E", "C", "R", "E", "T">>, <<"K", "E", "Y">>, <<"T", "O", "K", "E", "N">>,
     <<"C", "R", "E", "D", "E", "N", "T", "I", "A", "L">>, <<"A", "U", "T", "H">>,
     <<"S", "H", "A", "2", "5", "6">>, <<"H", "A", "S", "H">>}

Mask == "***"

(* Variant: "keyword in key", without upper(). *)
IsSensitiveCaseSensitive(key) == \E keyword \in sensitive_keywords : Contains(keyword, key)

(* "if any(keyword in key.upper() for keyword in sensitive_keywords)" *)
IsSensitive(key) == \E keyword \in sensitive_keywords : Contains(keyword, upper(key))

(* get_env_vars(): the mapping built from os.environ.items() *)
get_env_vars(env) ==
    [key \in DOMAIN env |-> IF IsSensitive(key) THEN Mask ELSE env[key]]

EnvKeys ==
    {<<"P", "A", "T", "H">>, <<"H", "O", "M", "E">>, <<"L", "A", "N", "G">>,
     <<"U", "S", "E">>, <<"K", "E", "_", "Y">>, <<"E", "Y", "K">>,
     <<"D", "B", "_", "U", "S", "E", "R">>,
     <<"d", "b", "_", "p", "a", "s", "s", "w", "o", "r", "d">>,
     <<"A", "p", "i", "_", "T", "o", "k", "e", "n">>,
     <<"S", "E", "C", "R", "E", "T">>, <<"M", "y", "K", "e", "y">>,
     <<"A", "U", "T", "H", "O", "R">>,
     <<"c", "r", "e", "d", "e", "n", "t", "i", "a", "l", "s">>,
     <<"s", "h", "a", "2", "5", "6", "s", "u", "m">>,
     <<"H", "a", "s", "h">>}
EnvValues == {"v", "w", Mask}

Environments ==
    UNION {[K -> EnvValues] : K \in {K \in SUBSET EnvKeys : Cardinality(K) <= MaxEnv}}

EnvInit ==
    /\ environ \in Environments
    /\ envOut = << >>
    /\ phase = "input"

GetEnvVars ==
    /\ phase = "input"
    /\ envOut' = get_env_vars(environ)
    /\ phase' = "output"
    /\ UNCHANGED <<environ, storeVars, mwVars, routeVars>>

-----------------------------------------------------------------------------
(* The parts of the state a specification does not use stay as constructed. *)
MWIdle ==
    /\ reqs = << >>
    /\ inflight = << >>
    /\ total = << >>
    /\ durations = << >>
    /\ nStarted = 0
    /\ nCompleted = 0
    /\ nRaised = 0
    /\ log = << >>
RouteIdle == rPath = << >> /\ rRoute = << >>
EnvIdle   == environ = << >> /\ envOut = << >>
StoreIdle ==
    /\ appState = "starting"
    /\ tableExists = FALSE
    /\ items = << >>
    /\ seq = 0
    /\ clock = 1
    /\ openConns = {}
    /\ nOps = 0
    /\ last = NoLast
    /\ createdIds = {}
    /\ deletedIds = {}
    /\ fresh = << >>

(* Spec: the store, the probes and the item handlers, one operation at a   *)
(* time, over every request body, with the store unreachable or failing at  *)
(* the statement or at the commit.                                          *)
DataFails == {"execute", "commit"}
Init == StoreIdle /\ MWIdle /\ RouteIdle /\ EnvIdle /\ phase = "input"

Next ==
    \/ Lifespan(DataFails)           /\ UNCHANGED <<mwVars, routeVars, envVars, phase>>
    \/ InitDatabase                  /\ UNCHANGED <<mwVars, routeVars, envVars, phase>>
    \/ GetItems(DataFails)           /\ UNCHANGED <<mwVars, routeVars, envVars, phase>>
    \/ GetItem(DataFails)            /\ UNCHANGED <<mwVars, routeVars, envVars, phase>>
    \/ CreateItem(Bodies, DataFails) /\ UNCHANGED <<mwVars, routeVars, envVars, phase>>
    \/ UpdateItem(Bodies, DataFails) /\ UNCHANGED <<mwVars, routeVars, envVars, phase>>
    \/ DeleteItem(DataFails)         /\ UNCHANGED <<mwVars, routeVars, envVars, phase>>

Spec == Init /\ [][Next]_vars

(* SpecConn: the same operations and the probes with one request body, the *)
(* store unreachable or failing at any step of the handler.                 *)
OneBody == {[hasTitle |-> TRUE, title |-> "a"]}
NextConn ==
    \/ Lifespan(AllSteps)            /\ UNCHANGED <<mwVars, routeVars, envVars, phase>>
    \/ InitDatabase                  /\ UNCHANGED <<mwVars, routeVars, envVars, phase>>
    \/ Health                        /\ UNCHANGED <<mwVars, routeVars, envVars, phase>>
    \/ Ready(AllSteps)               /\ UNCHANGED <<mwVars, routeVars, envVars, phase>>
    \/ GetItems(AllSteps)            /\ UNCHANGED <<mwVars, routeVars, envVars, phase>>
    \/ GetItem(AllSteps)             /\ UNCHANGED <<mwVars, routeVars, envVars, phase>>
    \/ CreateItem(OneBody, AllSteps) /\ UNCHANGED <<mwVars, routeVars, envVars, phase>>
    \/ UpdateItem(OneBody, AllSteps) /\ UNCHANGED <<mwVars, routeVars, envVars, phase>>
    \/ DeleteItem(AllSteps)          /\ UNCHANGED <<mwVars, routeVars, envVars, phase>>

SpecConn == Init /\ [][NextConn]_vars

(* SpecMW: up to MaxReqs requests through the middleware, two at a time. *)
InitMW == StoreIdle /\ MWInit /\ RouteIdle /\ EnvIdle /\ phase = "input"
NextMW ==
    \/ \E s \in Slots : Enter(s)           /\ UNCHANGED <<storeVars, routeVars, envVars, phase>>
    \/ \E s \in Slots : CallNextReturns(s) /\ UNCHANGED <<storeVars, routeVars, envVars, phase>>
    \/ \E s \in Slots : CallNextRaises(s)  /\ UNCHANGED <<storeVars, routeVars, envVars, phase>>
    \/ \E s \in Slots : Finally(s)         /\ UNCHANGED <<storeVars, routeVars, envVars, phase>>
SpecMW == InitMW /\ [][NextMW]_vars

(* SpecRoute: the route label of every path of up to MaxPath tokens. *)
InitRoute == StoreIdle /\ MWIdle /\ RouteInit /\ EnvIdle
NextRoute == Normalize
SpecRoute == InitRoute /\ [][NextRoute]_vars

(* SpecEnv: the dump of every environment of up to MaxEnv variables. *)
InitEnv == StoreIdle /\ MWIdle /\ RouteIdle /\ EnvInit
NextEnv == GetEnvVars
SpecEnv == InitEnv /\ [][NextEnv]_vars

-----------------------------------------------------------------------------
(* Properties                                                               *)

(* The last operation reached the store and none of its statements raised. *)
StoreAnswered == last.up /\ last.failed = "none"

(* C1: when a create succeeded with id i for title t, a following get of i  *)
(* (no update or delete of i in between) that the store answers returns 200 *)
(* with id i, title t and the non-empty created_at the create returned.     *)
C1_CreateThenGet ==
    /\ (last.op = "create" /\ last.status = 201) =>
          /\ last.item.title = last.title
          /\ last.item.created_at # EmptyStr
    /\ (last.op = "get" /\ last.id \in DOMAIN fresh /\ StoreAnswered) =>
          /\ last.status = 200
          /\ last.item.id = last.id
          /\ last.item.title = fresh[last.id].sent
          /\ last.item.created_at # EmptyStr
          /\ last.item.created_at = fresh[last.id].body.created_at
          /\ last.item = fresh[last.id].body

C1_Witness ==
    /\ last.op = "get" /\ last.id = 2 /\ last.id \in DOMAIN fresh
    /\ last.status = 200 /\ last.item.title = "a"
    /\ 1 \in DOMAIN items

(* C2: a list the store answers returns exactly the items created and not   *)
(* deleted, each once, with their current title, in descending order of     *)
(* created_at; with no delete it returns every created item.                *)
C2_ListNewestFirst ==
    (last.op = "list" /\ last.status = 200) =>
        LET L == last.list IN
        /\ {L[k].id : k \in 1..Len(L)} = createdIds \ deletedIds
        /\ Len(L) = Cardinality(createdIds \ deletedIds)
        /\ deletedIds = {} => Len(L) = Cardinality(createdIds)
        /\ \A k \in 1..Len(L) :
              /\ L[k].title = items[L[k].id].title
              /\ L[k].created_at = isoformat(items[L[k].id].created_at)
        /\ \A i, j \in 1..Len(L) : i < j => L[i].created_at[2] >= L[j].created_at[2]

C2_Witness ==
    /\ last.op = "list" /\ last.status = 200
    /\ Len(last.list) = 2
    /\ last.list[1].id = 2
    /\ last.list[1].created_at[2] > last.list[2].created_at[2]

(* C3: a get, update or delete that the store answers, on an id without     *)
(* record, returns 404 and changes no item; an id deleted with 204 has no   *)
(* record afterwards.                                                       *)
C3_NotFound ==
    /\ deletedIds \cap DOMAIN items = {}
    /\ ( /\ last.op \in {"get", "update", "delete"}
         /\ last.op = "update" => last.hasTitle
         /\ ~last.present
         /\ StoreAnswered )
       => (last.status = 404 /\ ~last.changed)
    /\ last.status = 404 => (~last.changed /\ ~last.present)

C3_Witness ==
    /\ last.op = "delete" /\ last.status = 404
    /\ last.id \in deletedIds

(* C9 as stated: every stored item has a non-empty title. *)
C9_TitleNonEmpty ==
    \A id \in DOMAIN items : items[id].title # ""

(* C9 amended: every stored item has a title, the text the request gave,    *)
(* which may be empty; a create or update without title is answered 422     *)
(* before any connection and stores nothing.                                *)
C9_TitlePresent ==
    /\ \A id \in DOMAIN items : items[id].title \in Titles
    /\ (last.op \in {"create", "update"} /\ ~last.hasTitle) =>
          (last.status = 422 /\ ~last.changed /\ last.attempts = 0)
    /\ (last.op = "create" /\ last.status = 201) =>
          items[last.item.id].title = last.title
    /\ (last.op = "update" /\ last.status = 200) =>
          items[last.id].title = last.title

C9_Witness ==
    /\ last.op = "create" /\ last.status = 201 /\ last.hasTitle /\ last.title = ""
    /\ items[last.item.id].title = ""

(* C4: when the connection cannot be established, /health answers 200 and   *)
(* /ready and the five item operations answer 503 after one connection      *)
(* attempt, without connection and without change to the store.             *)
C4_StoreDown ==
    ~last.up =>
        /\ last.op = "health" => last.status = 200
        /\ last.op \in {"ready", "list", "get", "create", "update", "delete"} =>
              /\ last.status = 503
              /\ last.attempts = 1
              /\ last.conn = None
              /\ ~last.changed

C4_Witness ==
    /\ ~last.up /\ last.op = "delete" /\ last.present
    /\ last.status = 503 /\ last.attempts = 1

(* C10: every operation opens at most one connection, a new one, and has    *)
(* closed it when it ends, on every path; no connection stays open.         *)
C10_ConnectionsClosed ==
    /\ openConns = {}
    /\ last.attempts <= 1
    /\ last.conn # None => (last.closes >= 1 /\ ~last.reused)
    /\ last.conn = None => last.closes = 0

C10_Witness ==
    /\ last.op = "update" /\ last.failed = "commit" /\ last.present
    /\ last.conn # None /\ last.closes = 1 /\ openConns = {}

RECURSIVE SumOver(_, _)
SumOver(metric, labels) ==
    IF labels = {} THEN 0
    ELSE LET l == CHOOSE x \in labels : TRUE
         IN  metric[l] + SumOver(metric, labels \ {l})

InDispatch(route) ==
    {s \in Slots : reqs[s].pc # "idle" /\ reqs[s].route = route}

(* C5: the in-flight gauge of a route is the number of requests of that     *)
(* route that entered dispatch and have not completed; never negative; 0    *)
(* everywhere once no request is in dispatch.                               *)
C5_InflightGauge ==
    /\ \A route \in DOMAIN inflight \cup {reqs[s].route : s \in Slots} :
          /\ Val(inflight, route) = Cardinality(InDispatch(route))
          /\ Val(inflight, route) >= 0
    /\ SumOver(inflight, DOMAIN inflight) = nStarted - nCompleted
    /\ (\A s \in Slots : reqs[s].pc = "idle") =>
          \A route \in DOMAIN inflight : inflight[route] = 0

C5_Witness ==
    /\ Val(inflight, IdTemplate) = 2
    /\ nRaised = 1
    /\ \E s \in Slots : reqs[s].pc = "resumed" /\ reqs[s].raised

LabelsOf(entry) ==
    <<entry.method, RouteTemplate(entry.path),
      IF entry.raised THEN 500 ELSE entry.status>>

(* C6: each completed request is counted once, under its method, its route  *)
(* label and its status (500 when dispatch raised); an exception leaves the *)
(* middleware; the counter sums to the number of completed requests.        *)
C6_RequestsTotal ==
    /\ Len(log) = nCompleted
    /\ \A l \in DOMAIN total \cup {LabelsOf(log[k]) : k \in 1..Len(log)} :
          Val(total, l) = Cardinality({k \in 1..Len(log) : LabelsOf(log[k]) = l})
    /\ SumOver(total, DOMAIN total) = nCompleted
    /\ \A k \in 1..Len(log) : (log[k].left = "exception") <=> log[k].raised
    /\ nRaised = Cardinality({k \in 1..Len(log) : log[k].raised})

C6_Witness ==
    /\ Val(total, <<"GET", IdTemplate, 500>>) = 1
    /\ Val(total, <<"GET", IdTemplate, 404>>) = 1
    /\ nRaised = 1 /\ nCompleted = 2

(* "/api/items/<value>": "/api/items/" followed by a value without "/" *)
HasItemForm(path) ==
    /\ Len(path) > Len(ItemsSlash)
    /\ SubSeq(path, 1, Len(ItemsSlash)) = ItemsSlash
    /\ \A i \in (Len(ItemsSlash) + 1)..Len(path) : path[i] # "/"

(* C7 as stated: the label is "/api/items/{id}" exactly for the paths       *)
(* "/api/items/<value>", and the path itself for every other path.          *)
C7_RouteTemplate ==
    phase = "output" =>
        rRoute = IF HasItemForm(rPath) THEN IdTemplate ELSE rPath

LowerOf(ch) ==
    IF \E n \in 1..Len(UpperCase) : UpperCase[n] = ch
    THEN LowerCase[CHOOSE n \in 1..Len(UpperCase) : UpperCase[n] = ch]
    ELSE ch

ClaimKeywords ==
    {<<"u", "s", "e", "r">>, <<"p", "a", "s", "s", "w", "o", "r", "d">>,
     <<"s", "e", "c", "r", "e", "t">>, <<"k", "e", "y">>, <<"t", "o", "k", "e", "n">>,
     <<"c", "r", "e", "d", "e", "n", "t", "i", "a", "l">>, <<"a", "u", "t", "h">>,
     <<"s", "h", "a", "2", "5", "6">>, <<"h", "a", "s", "h">>}

(* the name contains a keyword, letters compared without regard to case *)
NamesSecret(key) ==
    \E kw \in ClaimKeywords :
    \E off \in 0..(Len(key) - Len(kw)) :
        \A j \in 1..Len(kw) : LowerOf(key[off + j]) = kw[j]

(* C8: the dump has exactly the keys of the environment; a key whose name   *)
(* contains a keyword, case-insensitively, maps to "***" and not to its raw *)
(* value; every other key maps to its value.                                *)
C8_EnvMasked ==
    phase = "output" =>
        /\ DOMAIN envOut = DOMAIN environ
        /\ \A key \in DOMAIN environ :
              IF NamesSecret(key)
              THEN /\ envOut[key] = "***"
                   /\ environ[key] # "***" => envOut[key] # environ[key]
              ELSE envOut[key] = environ[key]

C8_Witness ==
    /\ phase = "output"
    /\ <<"M", "y", "K", "e", "y">> \in DOMAIN environ
    /\ environ[<<"M", "y", "K", "e", "y">>] = "v"
    /\ envOut[<<"M", "y", "K", "e", "y">>] = "***"
    /\ <<"P", "A", "T", "H">> \in DOMAIN environ
    /\ envOut[<<"P", "A", "T", "H">>] = "v"

=============================================================================
